---- MODULE Spec2Model ----
(***************************************************************************)
(* A model of the Sudoku solver of src/sudoku.py (constraint propagation   *)
(* plus depth-first search, after Peter Norvig).                           *)
(*                                                                         *)
(* Representation.  A Python string is a sequence of one-character         *)
(* strings; a square is its two-character name ("A1" .. "I9"); a Puzzle    *)
(* (a dict with a counter) is a record [cells, count] whose cells field is *)
(* a function from square names to strings.  The failed puzzle is the      *)
(* empty dict: cells = <<>>.                                               *)
(*                                                                         *)
(* assign and eliminate mutate the dict they are given and return either   *)
(* that same dict or a fresh empty one.  The operators below therefore     *)
(* return [obj, ok, exc]: obj is the argument dict after the call, ok      *)
(* tells whether the call returned it (TRUE) or failed(obj) (FALSE), and   *)
(* exc names the exception the call raised, "" when it returned.           *)
(***************************************************************************)
EXTENDS Integers, Sequences, FiniteSets

\* ------------------------------------------------------------- topology

digits == <<"1", "2", "3", "4", "5", "6", "7", "8", "9">>
rows == <<"A", "B", "C", "D", "E", "F", "G", "H", "I">>
cols == digits

\* [a+b for a in A for b in B]
cross(A, B) ==
  [i \in 1..(Len(A) * Len(B)) |->
     A[((i - 1) \div Len(B)) + 1] \o B[((i - 1) % Len(B)) + 1]]

squares == cross(rows, cols)

column_squares == [j \in 1..Len(cols) |-> cross(rows, <<cols[j]>>)]
row_squares == [i \in 1..Len(rows) |-> cross(<<rows[i]>>, cols)]

BoxRows == <<SubSeq(rows, 1, 3), SubSeq(rows, 4, 6), SubSeq(rows, 7, 9)>>
BoxCols == <<SubSeq(cols, 1, 3), SubSeq(cols, 4, 6), SubSeq(cols, 7, 9)>>

box_squares ==
  [k \in 1..(Len(BoxRows) * Len(BoxCols)) |->
     cross(BoxRows[((k - 1) \div Len(BoxCols)) + 1],
           BoxCols[((k - 1) % Len(BoxCols)) + 1])]

unitlist == column_squares \o row_squares \o box_squares

Range(seq) == {seq[i] : i \in DOMAIN seq}

SquareSet == Range(squares)

\* Position of a square in `squares`: Python compares the names as strings,
\* and on these names that order is the order of the list.
IndexOf(s) == CHOOSE i \in DOMAIN squares : squares[i] = s

\* units[s] = [u for u in unitlist if s in u]
UnitsOf(s) == SelectSeq(unitlist, LAMBDA u : s \in Range(u))

units == [s \in SquareSet |-> UnitsOf(s)]

\* PeersOf without the test s2 != s.
PeersOfWithSelf(s) == UNION {Range(units[s][k]) : k \in DOMAIN units[s]}

\* peers[s] = set(s2 for u in units[s] for s2 in u if s2 != s)
PeersOf(s) == UNION {Range(units[s][k]) : k \in DOMAIN units[s]} \ {s}

peers == [s \in SquareSet |-> PeersOf(s)]

\* ------------------------------------------------------------- puzzles

VARIABLES
  peer_order, \* the order in which the set peers[s] is iterated
  grid,       \* the text given to solve
  pc,         \* the function the program is in
  todo,       \* parse_grid: the (square, digit) items still to fold in
  heap,       \* the Puzzle objects alive, by identity
  arg,        \* search: the identity of its argument
  cur,        \* first_valid_result: its arguments
  stack,      \* the calls of first_valid_result waiting for search
  ret,        \* the identity of the puzzle being returned
  out,        \* what to_string gave, or the exception it raised
  first,      \* the cells of parse_grid(g) while to_string of it is parsed again
  probe,      \* the outcome of a call made on the puzzle solve returned
  machine     \* a call of assign or eliminate being run step by step

vars ==
  <<peer_order, grid, pc, todo, heap, arg, cur, stack, ret, out, first, probe, machine>>

\* class Puzzle(dict): a dict with a counter.
Puzzle(cells, count) == [cells |-> cells, count |-> count]

\* has_failed(puzzle): not puzzle, true of the empty dict only.
has_failed(puzzle) == DOMAIN puzzle.cells = {}

\* failed(puzzle): a fresh empty dict carrying the counter.
failed(puzzle) == Puzzle(<<>>, puzzle.count)

\* str.replace(digit, '') on a string of distinct characters.
Replace(value, digit) == SelectSeq(value, LAMBDA c : c # digit)

\* digit in value
Contains(value, digit) == \E i \in DOMAIN value : value[i] = digit

\* The first line of parse_grid: every square can be any digit.
AllCandidates == Puzzle([s \in SquareSet |-> digits], 0)

\* Results of the propagation operators.
Returned(obj) == [obj |-> obj, ok |-> TRUE, exc |-> ""]
Failed(obj) == [obj |-> obj, ok |-> FALSE, exc |-> ""]
Raised(obj, exc) == [obj |-> obj, ok |-> FALSE, exc |-> exc]

\* The puzzle a propagation call hands back to its caller.
ReturnValue(r) == IF r.ok THEN r.obj ELSE failed(r.obj)

\* Iterating the set peers[s]: Python fixes no order for a set, the model
\* follows the list order of squares forwards or backwards.
PeersAscending == [s \in SquareSet |-> SelectSeq(squares, LAMBDA x : x \in peers[s])]

Reverse(seq) == [i \in 1..Len(seq) |-> seq[Len(seq) + 1 - i]]

PeerSeq(s) ==
  IF peer_order = "ascending" THEN PeersAscending[s] ELSE Reverse(PeersAscending[s])

\* ------------------------------------------------------------- propagation
\* assign and eliminate call each other; the calls are kept on an explicit
\* stack and run one step at a time.  A frame is one call of assign,
\* eliminate, peer_eliminate or assign_unique_place: its arguments, where it
\* is (at), and what is left of its loop (rest, or the unit index k).  result
\* is what the call that has just returned gave: "ok" for the puzzle itself,
\* "failed" for failed(puzzle), the name of the exception when it raised.

Frame(fn, square, digit) ==
  [fn |-> fn, square |-> square, digit |-> digit, at |-> "enter", rest |-> <<>>, k |-> 0]

Machine(puzzle, frame) == [obj |-> puzzle, calls |-> <<frame>>, result |-> ""]

Top(m) == m.calls[Len(m.calls)]
Below(m) == SubSeq(m.calls, 1, Len(m.calls) - 1)

\* The running call goes on at frame.
Goto(m, frame) == [m EXCEPT !.calls = Append(Below(m), frame), !.result = ""]
\* The running call, left at frame, calls callee.
Call(m, frame, callee) ==
  [m EXCEPT !.calls = Append(Append(Below(m), frame), callee), !.result = ""]
\* The running call returns.
Ret(m, result) == [m EXCEPT !.calls = Below(m), !.result = result]
\* The running call raises: no caller catches it.
Raise(m, exc) == [m EXCEPT !.calls = <<>>, !.result = exc]

\* assign that takes a digit no longer among the candidates as assigned.
other_values_if_present(puzzle, square, digit) ==
  IF Contains(puzzle.cells[square], digit)
  THEN Replace(puzzle.cells[square], digit) ELSE <<>>

\* assign: other_values = puzzle[square].replace(digit, '')
other_values(puzzle, square, digit) == Replace(puzzle.cells[square], digit)

\* assign: all(eliminate(puzzle, square, digit2) for digit2 in other_values)
assign_step(m, f) ==
  IF f.at = "enter"
  THEN IF f.square \notin DOMAIN m.obj.cells THEN Raise(m, "KeyError")
       ELSE Goto(m, [f EXCEPT !.at = "loop",
                              !.rest = other_values(m.obj, f.square, f.digit)])
  ELSE IF m.result = "failed" THEN Ret(m, "failed")
  ELSE IF f.rest = <<>> THEN Ret(m, "ok")
  ELSE Call(m, [f EXCEPT !.rest = Tail(@)], Frame("eliminate", f.square, Head(f.rest)))

\* eliminate that leaves the digit where it is.
remove_nothing(puzzle, square, digit) == puzzle

\* eliminate: puzzle[square] = puzzle[square].replace(digit, '')
remove(puzzle, square, digit) == [puzzle EXCEPT !.cells[square] = Replace(@, digit)]

eliminate_step(m, f) ==
  IF f.at = "enter"
  THEN IF f.square \notin DOMAIN m.obj.cells THEN Raise(m, "KeyError")
       ELSE IF ~Contains(m.obj.cells[f.square], f.digit) THEN Ret(m, "ok")
       ELSE LET removed == [m EXCEPT !.obj = remove(@, f.square, f.digit)]
            IN  IF Len(removed.obj.cells[f.square]) = 0 THEN Ret(removed, "failed")
                ELSE Call([removed EXCEPT !.obj.count = @ + 1],
                          [f EXCEPT !.at = "peer_eliminate"],
                          Frame("peer_eliminate", f.square, ""))
  ELSE IF f.at = "peer_eliminate"
  THEN IF m.result = "failed" THEN Ret(m, "failed")
       ELSE Call(m, [f EXCEPT !.at = "assign_unique_place"],
                 Frame("assign_unique_place", f.square, f.digit))
  ELSE Ret(m, m.result)

\* peer_eliminate: len(puzzle[square]) == 1
reduced_to_one(puzzle, square) == Len(puzzle.cells[square]) = 1

\* (1) If a square is reduced to one value, then eliminate it from the peers.
peer_eliminate_step(m, f) ==
  IF f.at = "enter"
  THEN IF reduced_to_one(m.obj, f.square)
       THEN Goto(m, [f EXCEPT !.at = "loop",
                              !.digit = m.obj.cells[f.square][1],
                              !.rest = PeerSeq(f.square)])
       ELSE Ret(m, "ok")
  ELSE IF m.result = "failed" THEN Ret(m, "failed")
  ELSE IF f.rest = <<>> THEN Ret(m, "ok")
  ELSE Call(m, [f EXCEPT !.rest = Tail(@)], Frame("eliminate", Head(f.rest), f.digit))

\* (2) If a unit is reduced to only one place for a digit, then put it there.
\* k units of units[square] have been looked at.
assign_unique_place_step(m, f) ==
  IF m.result = "failed" THEN Ret(m, "failed")
  ELSE IF f.k = Len(units[f.square]) THEN Ret(m, "ok")
  ELSE LET u == units[f.square][f.k + 1]
           digit_places ==
             SelectSeq(u, LAMBDA square2 : Contains(m.obj.cells[square2], f.digit))
       IN  IF Len(digit_places) = 0 THEN Ret(m, "failed")
           ELSE IF Len(digit_places) = 1
           THEN Call(m, [f EXCEPT !.k = @ + 1], Frame("assign", digit_places[1], f.digit))
           ELSE Goto(m, [f EXCEPT !.k = @ + 1])

\* One step of the running call.
PropStep(m) ==
  LET f == Top(m)
  IN  IF f.fn = "assign" THEN assign_step(m, f)
      ELSE IF f.fn = "eliminate" THEN eliminate_step(m, f)
      ELSE IF f.fn = "peer_eliminate" THEN peer_eliminate_step(m, f)
      ELSE assign_unique_place_step(m, f)

\* Up to 2^n steps, stopping when the first call has returned.
RunDepth == 16

RECURSIVE Run(_, _)
Run(m, n) ==
  IF m.calls = <<>> THEN m
  ELSE IF n = 0 THEN PropStep(m)
  ELSE Run(Run(m, n - 1), n - 1)

Outcome(m) ==
  IF m.calls # <<>> THEN Raised(m.obj, "unfinished")
  ELSE IF m.result = "ok" THEN Returned(m.obj)
  ELSE IF m.result = "failed" THEN Failed(m.obj)
  ELSE Raised(m.obj, m.result)

\* The calls as the search driver and parse_grid make them: run to the end.
assign(puzzle, square, digit) ==
  Outcome(Run(Machine(puzzle, Frame("assign", square, digit)), RunDepth))

eliminate(puzzle, square, digit) ==
  Outcome(Run(Machine(puzzle, Frame("eliminate", square, digit)), RunDepth))

\* unitsolved that compares with set([digits]), the set of the one string.
unitsolved_never(puzzle, unit) ==
  {puzzle.cells[unit[i]] : i \in DOMAIN unit} = {digits}

\* is_solved: each unit is a permutation of the digits 1 to 9.
unitsolved(puzzle, unit) ==
  {puzzle.cells[unit[i]] : i \in DOMAIN unit} = {<<digits[k]>> : k \in DOMAIN digits}

\* is_solved with any() in the place of all().
is_solved_any(puzzle) ==
  (~has_failed(puzzle)) /\ \E k \in DOMAIN unitlist : unitsolved(puzzle, unitlist[k])

is_solved(puzzle) ==
  (~has_failed(puzzle)) /\ \A k \in DOMAIN unitlist : unitsolved(puzzle, unitlist[k])

\* value_or_dot with its two branches exchanged.
value_or_dot_swapped(value) == IF Len(value) = 1 THEN "." ELSE value[1]

\* value_or_dot
value_or_dot(value) == IF Len(value) = 1 THEN value[1] ELSE "."

\* to_string: ''.join([value_or_dot(puzzle[s]) for s in squares]); the lookup
\* puzzle[s] raises KeyError on a dict without the key s.
to_string(puzzle) ==
  IF \E i \in DOMAIN squares : squares[i] \notin DOMAIN puzzle.cells
  THEN [exc |-> "KeyError", text |-> <<>>]
  ELSE [exc |-> "", text |-> [i \in DOMAIN squares |-> value_or_dot(puzzle.cells[squares[i]])]]

\* grid_puzzle: the characters of the grid that count, zipped with squares.
GridChars(g) == SelectSeq(g, LAMBDA c : c \in Range(digits) \/ c \in {"0", "."})

grid_puzzle(g) == [i \in 1..Len(GridChars(g)) |-> <<squares[i], GridChars(g)[i]>>]

\* The items parse_grid assigns: those whose character is a digit.
Givens(g) == SelectSeq(grid_puzzle(g), LAMBDA item : item[2] \in Range(digits))

\* dict.items() comes in an order Python does not fix: the list order rotated
\* by up to MaxRotation places, forwards or backwards (every order of up to
\* MaxRotation + 1 items).
MaxRotation == 2

Rotate(seq, k) == [i \in 1..Len(seq) |-> seq[((i + k - 1) % Len(seq)) + 1]]

Rotations(items) ==
  {Rotate(items, k) : k \in 0..(IF Len(items) - 1 < MaxRotation
                                 THEN Len(items) - 1 ELSE MaxRotation)}

ItemOrders(items) ==
  IF items = <<>> THEN {<<>>}
  ELSE Rotations(items) \cup {Reverse(r) : r \in Rotations(items)}

\* copy that returns self: no new object.
copy_self(h, id) == [heap |-> h, id |-> id]

\* Puzzle.copy: a new object with the same items and count.  The result is
\* the heap with the new object in it, and the identity of the new object.
copy(h, id) ==
  [heap |-> Append(h, Puzzle(h[id].cells, h[id].count)), id |-> Len(h) + 1]

\* min((len(puzzle[s]), s) for s in squares if len(puzzle[s]) > 1)
Unfilled(puzzle) == {s \in SquareSet : Len(puzzle.cells[s]) > 1}

MinSquare(puzzle) ==
  LET fewest == CHOOSE n \in 2..Len(digits) :
                  /\ \E s \in Unfilled(puzzle) : Len(puzzle.cells[s]) = n
                  /\ \A s \in Unfilled(puzzle) : Len(puzzle.cells[s]) >= n
      i == CHOOSE i \in DOMAIN squares :
             /\ Len(puzzle.cells[squares[i]]) = fewest
             /\ \A j \in 1..(i - 1) : Len(puzzle.cells[squares[j]]) # fewest
  IN  squares[i]

NoCall == [puzzle |-> 0, square |-> "", values |-> <<>>]

\* ------------------------------------------------------------- inputs

\* The grids given to the program.  A grid is 81 characters; the squares left
\* open hold "." (or, in the grids of at most MaxConflictPrefix + 2 givens, "0").
\*   - the first k entries of one of the GivenPools, k = 0..MaxGivens;
\*   - at most MaxConflictPrefix entries of a pool, and the same digit (one
\*     of the first MaxConflictDigits digits) in two of the first
\*     NumConflictSquares entries of ConflictSquareList that share a unit;
\*   - grids with a separator in them, and a grid of 80 characters.
MaxGivens == 8
MaxConflictPrefix == 1
MaxConflictDigits == 2
NumConflictSquares == 4

GivenPools ==
  << << <<"A3", "4">>, <<"B4", "1">>, <<"C7", "1">>, <<"B5", "2">>, <<"C8", "2">>,
        <<"B6", "3">>, <<"C9", "3">>, <<"D1", "1">>, <<"E5", "5">>, <<"F9", "6">> >>,
     << <<"G7", "1">>, <<"I7", "4">>, <<"A8", "2">>, <<"C2", "4">>, <<"B6", "4">>,
        <<"I2", "3">>, <<"D7", "3">>, <<"F3", "4">>, <<"A3", "3">>, <<"B9", "3">> >> >>

ConflictSquareList == <<"E5", "E9", "I5", "F6", "D4", "H9">>

GridOf(items, blank) ==
  [i \in DOMAIN squares |->
     IF \E k \in DOMAIN items : items[k][1] = squares[i]
     THEN items[CHOOSE k \in DOMAIN items : items[k][1] = squares[i]][2]
     ELSE blank]

Min(a, b) == IF a < b THEN a ELSE b

PoolPrefixes(maxlen) ==
  {SubSeq(GivenPools[j], 1, k) : j \in DOMAIN GivenPools, k \in 0..maxlen}

ConflictSquares ==
  {ConflictSquareList[i] : i \in 1..Min(NumConflictSquares, Len(ConflictSquareList))}

ConflictPairs ==
  {<< <<s1, digits[d]>>, <<s2, digits[d]>> >> :
     s1 \in ConflictSquares, s2 \in ConflictSquares, d \in 1..MaxConflictDigits}

ConflictItems ==
  {pre \o pair : pre \in PoolPrefixes(MaxConflictPrefix),
                 pair \in {cp \in ConflictPairs : cp[2][1] \in peers[cp[1][1]]}}

\* A grid with a character that does not count after its first character.
Separated(g) == <<Head(g), " ">> \o Tail(g)

Grids ==
  {GridOf(items, ".") : items \in PoolPrefixes(MaxGivens) \cup ConflictItems}
    \cup {GridOf(items, "0") : items \in PoolPrefixes(MaxConflictPrefix) \cup ConflictItems}
    \cup {Separated(GridOf(items, ".")) : items \in PoolPrefixes(MaxConflictPrefix)}
    \cup {Tail(GridOf(<<>>, "."))}

PeerOrders == {"ascending", "descending"}

NoText == [exc |-> "", text |-> <<>>]
NoProbe == [fn |-> "", exc |-> "", failed |-> FALSE, changed |-> FALSE]
Idle == [obj |-> Puzzle(<<>>, 0), calls |-> <<>>, result |-> ""]

\* ------------------------------------------------------------- actions

Init ==
  /\ peer_order \in PeerOrders
  /\ grid \in Grids
  /\ pc = "start"
  /\ todo = <<>>
  /\ heap = <<>>
  /\ arg = 0
  /\ cur = NoCall
  /\ stack = <<>>
  /\ ret = 0
  /\ out = NoText
  /\ first = <<>>
  /\ probe = NoProbe
  /\ machine = Idle

\* parse_grid up to its loop: the all-candidates puzzle, and grid_puzzle with
\* its assertion on the number of characters.
ParseBegin ==
  /\ pc = "start"
  /\ IF Len(GridChars(grid)) = Len(squares)
     THEN /\ heap' = <<AllCandidates>>
          /\ \E items \in ItemOrders(Givens(grid)) : todo' = items
          /\ pc' = "parse_grid"
     ELSE /\ pc' = "AssertionError"
          /\ UNCHANGED <<heap, todo>>
  /\ UNCHANGED <<machine, peer_order, grid, arg, cur, stack, ret, out, first, probe>>

\* One round of the loop of parse_grid on an item that holds a digit (the
\* items that hold "0" or "." are passed over).
ParseStep ==
  /\ pc = "parse_grid"
  /\ todo # <<>>
  /\ LET r == assign(heap[1], Head(todo)[1], Head(todo)[2])
     IN  IF r.ok
         THEN /\ heap' = <<r.obj>>
              /\ todo' = Tail(todo)
              /\ pc' = "parse_grid"
         ELSE /\ heap' = <<failed(r.obj)>>
              /\ todo' = <<>>
              /\ pc' = "parsed"
  /\ UNCHANGED <<machine, peer_order, grid, arg, cur, stack, ret, out, first, probe>>

\* The loop of parse_grid is over: return puzzle.
ParseReturn ==
  /\ pc = "parse_grid"
  /\ todo = <<>>
  /\ pc' = "parsed"
  /\ UNCHANGED <<machine, peer_order, grid, todo, heap, arg, cur, stack, ret, out, first, probe>>

\* solve: search(parse_grid(grid)).
SolveCallSearch ==
  /\ pc = "parsed"
  /\ pc' = "search"
  /\ arg' = 1
  /\ grid' = <<>>
  /\ first' = <<>>
  /\ UNCHANGED <<machine, peer_order, todo, heap, cur, stack, ret, out, probe>>

\* search(puzzle), up to its call of first_valid_result.
Search ==
  /\ pc = "search"
  /\ LET puzzle == heap[arg]
     IN  IF has_failed(puzzle)
         THEN /\ heap' = Append(heap, failed(puzzle))
              /\ ret' = Len(heap) + 1
              /\ pc' = "return"
              /\ cur' = NoCall
         ELSE IF is_solved(puzzle)
         THEN /\ ret' = arg
              /\ pc' = "return"
              /\ UNCHANGED <<heap, cur>>
         ELSE IF Unfilled(puzzle) = {}
         THEN /\ pc' = "ValueError"
              /\ UNCHANGED <<heap, cur, ret>>
         ELSE /\ cur' = [puzzle |-> arg, square |-> MinSquare(puzzle),
                         values |-> puzzle.cells[MinSquare(puzzle)]]
              /\ pc' = "first_valid_result"
              /\ UNCHANGED <<heap, ret>>
  /\ arg' = 0
  /\ UNCHANGED <<machine, peer_order, grid, todo, stack, out, first, probe>>

\* first_valid_result up to its call of search: the copy, the assign on it
\* (which changes the copy in place and returns it, or a new failed puzzle).
FirstValidResult ==
  /\ pc = "first_valid_result"
  /\ IF Len(cur.values) = 0
     THEN /\ heap' = Append(heap, failed(heap[cur.puzzle]))
          /\ ret' = Len(heap) + 1
          /\ pc' = "return"
          /\ UNCHANGED <<arg, stack>>
     ELSE LET copied == copy(heap, cur.puzzle)
              r == assign(copied.heap[copied.id], cur.square, cur.values[1])
              assigned == [copied.heap EXCEPT ![copied.id] = r.obj]
          IN  /\ IF r.ok
                 THEN /\ heap' = assigned
                      /\ arg' = copied.id
                 ELSE /\ heap' = Append(assigned, failed(r.obj))
                      /\ arg' = Len(assigned) + 1
              /\ stack' = Append(stack, cur)
              /\ pc' = "search"
              /\ UNCHANGED ret
  /\ cur' = NoCall
  /\ UNCHANGED <<machine, peer_order, grid, todo, out, first, probe>>

\* Return that does not go on with values[1:] after a failed branch.
ReturnFirstOnly ==
  /\ pc = "return"
  /\ stack # <<>>
  /\ LET frame == stack[Len(stack)]
         new_puzzle == heap[ret]
     IN  IF ~has_failed(new_puzzle)
         THEN /\ pc' = "return"
              /\ UNCHANGED <<heap, ret, cur>>
         ELSE /\ heap' = [SubSeq(heap, 1, frame.puzzle) EXCEPT
                            ![frame.puzzle].count =
                               @ + (new_puzzle.count - heap[frame.puzzle].count)]
              /\ cur' = [frame EXCEPT !.values = <<>>]
              /\ ret' = 0
              /\ pc' = "first_valid_result"
  /\ stack' = SubSeq(stack, 1, Len(stack) - 1)
  /\ UNCHANGED <<machine, peer_order, grid, todo, arg, out, first, probe>>

\* search has returned into first_valid_result: return a puzzle that did not
\* fail, else add its count to puzzle.count and go on with values[1:].
Return ==
  /\ pc = "return"
  /\ stack # <<>>
  /\ LET frame == stack[Len(stack)]
         new_puzzle == heap[ret]
     IN  IF ~has_failed(new_puzzle)
         THEN /\ pc' = "return"
              /\ UNCHANGED <<heap, ret, cur>>
         ELSE /\ heap' = [SubSeq(heap, 1, frame.puzzle) EXCEPT
                            ![frame.puzzle].count =
                               @ + (new_puzzle.count - heap[frame.puzzle].count)]
              /\ cur' = [frame EXCEPT !.values = Tail(frame.values)]
              /\ ret' = 0
              /\ pc' = "first_valid_result"
  /\ stack' = SubSeq(stack, 1, Len(stack) - 1)
  /\ UNCHANGED <<machine, peer_order, grid, todo, arg, out, first, probe>>

\* search has returned into solve.
SolveReturn ==
  /\ pc = "return"
  /\ stack = <<>>
  /\ pc' = "done"
  /\ UNCHANGED <<machine, peer_order, grid, todo, heap, arg, cur, stack, ret, out, first, probe>>

\* to_file: to_string(s) on a puzzle solve returned.
ToFile ==
  /\ pc = "done"
  /\ out' = to_string(heap[ret])
  /\ pc' = IF out'.exc = "" THEN "to_file" ELSE out'.exc
  /\ UNCHANGED <<machine, peer_order, grid, todo, heap, arg, cur, stack, ret, first, probe>>

\* parse_grid(to_string(parse_grid(g))): the text of the puzzle parse_grid
\* returned is the next grid to parse.
Reparse ==
  /\ pc = "parsed"
  /\ out' = to_string(heap[1])
  /\ IF out'.exc = ""
     THEN /\ grid' = out'.text
          /\ first' = heap[1].cells
          /\ heap' = <<>>
          /\ pc' = "start"
     ELSE /\ pc' = out'.exc
          /\ UNCHANGED <<grid, first, heap>>
  /\ UNCHANGED <<machine, peer_order, todo, arg, cur, stack, ret, probe>>

\* A caller goes on with the failed puzzle solve returned: assign or eliminate
\* on it, at one of the first MaxProbe squares with one of the first MaxProbe
\* digits.
MaxProbe == 2

CallOnFailed ==
  /\ pc = "done"
  /\ has_failed(heap[ret])
  /\ \E fn \in {"assign", "eliminate"}, i \in 1..MaxProbe, d \in 1..MaxProbe :
       LET r == IF fn = "assign" THEN assign(heap[ret], squares[i], digits[d])
                ELSE eliminate(heap[ret], squares[i], digits[d])
       IN  /\ probe' = [fn |-> fn, exc |-> r.exc,
                        failed |-> has_failed(ReturnValue(r)),
                        changed |-> r.obj # heap[ret]]
           /\ pc' = IF r.exc = "" THEN "called" ELSE r.exc
  /\ UNCHANGED <<machine, peer_order, grid, todo, heap, arg, cur, stack, ret, out, first>>

Next ==
  \/ ParseBegin
  \/ ParseStep
  \/ ParseReturn
  \/ SolveCallSearch
  \/ Search
  \/ FirstValidResult
  \/ Return
  \/ SolveReturn
  \/ ToFile
  \/ Reparse
  \/ CallOnFailed

Spec == Init /\ [][Next]_vars

\* ------------------------------------------------------------- propagation, step by step
\* One call of assign or eliminate on a store, run one step of PropStep at a
\* time.  The stores: every square holds all digits, but
\*   - each of the first MaxPropSquares squares of row A holds one of PropValues;
\*   - the other squares of row A hold all digits, or all but the first.
\* The call is on square A1 with one of the first MaxPropDigits digits.
MaxPropSquares == 2
MaxPropDigits == 2

PropValues == {digits, SubSeq(digits, 1, 2), SubSeq(digits, 1, 1), <<>>}

PropStores ==
  {Puzzle([s \in SquareSet |->
             IF IndexOf(s) <= MaxPropSquares THEN v[IndexOf(s)]
             ELSE IF s \in Range(row_squares[1]) THEN rest
             ELSE digits], 0) :
     v \in [1..MaxPropSquares -> PropValues], rest \in {digits, Tail(digits)}}

InitProp ==
  /\ peer_order \in PeerOrders
  /\ grid = <<>>
  /\ pc = "propagate"
  /\ todo = <<>>
  /\ heap = <<>>
  /\ arg = 0
  /\ cur = NoCall
  /\ stack = <<>>
  /\ ret = 0
  /\ out = NoText
  /\ first = <<>>
  /\ probe = NoProbe
  /\ \E store \in PropStores, fn \in {"assign", "eliminate"}, d \in 1..MaxPropDigits :
       machine = Machine(store, Frame(fn, squares[1], digits[d]))

Running(fn) == machine.calls # <<>> /\ Top(machine).fn = fn

Step ==
  /\ machine' = PropStep(machine)
  /\ UNCHANGED <<peer_order, grid, pc, todo, heap, arg, cur, stack, ret, out, first, probe>>

AssignStep == Running("assign") /\ Step
EliminateStep == Running("eliminate") /\ Step
PeerEliminateStep == Running("peer_eliminate") /\ Step
AssignUniquePlaceStep == Running("assign_unique_place") /\ Step

NextProp ==
  \/ AssignStep
  \/ EliminateStep
  \/ PeerEliminateStep
  \/ AssignUniquePlaceStep

\* The interpreter runs the one thread of the program on: a call that can
\* take a step takes it.
SpecProp == InitProp /\ [][NextProp]_vars /\ WF_vars(NextProp)

\* ------------------------------------------------------------- properties

\* What the properties read off a puzzle, stated on the cells themselves.
Live(puzzle) == DOMAIN puzzle.cells = SquareSet

EveryCellSingle(puzzle) == \A s \in SquareSet : Len(puzzle.cells[s]) = 1

\* The unit holds every digit exactly once.
UnitComplete(puzzle, unit) ==
  \A k \in DOMAIN digits :
    Cardinality({i \in DOMAIN unit : puzzle.cells[unit[i]] = <<digits[k]>>}) = 1

Solved(puzzle) ==
  /\ Live(puzzle)
  /\ EveryCellSingle(puzzle)
  /\ \A k \in DOMAIN unitlist : UnitComplete(puzzle, unitlist[k])

\* Is there a full assignment, one digit per cell out of the cell's
\* candidates, in which no two peers hold the same digit?  Decided by plain
\* backtracking: fix the cells one by one, the one with the fewest candidates
\* first; fixing s to d strikes d from the peers of s.
Fix(cells, s, d) ==
  [x \in SquareSet |->
     IF x = s THEN <<d>>
     ELSE IF x \in peers[s] THEN Replace(cells[x], d)
     ELSE cells[x]]

NextToFix(cells, fixed) ==
  LET fewest == CHOOSE n \in 1..Len(digits) :
                  /\ \E s \in SquareSet \ fixed : Len(cells[s]) = n
                  /\ \A s \in SquareSet \ fixed : Len(cells[s]) >= n
      i == CHOOSE i \in DOMAIN squares :
             /\ squares[i] \notin fixed
             /\ Len(cells[squares[i]]) = fewest
             /\ \A j \in 1..(i - 1) :
                  squares[j] \in fixed \/ Len(cells[squares[j]]) # fewest
  IN  squares[i]

RECURSIVE Completable(_, _)
Completable(cells, fixed) ==
  IF \E s \in SquareSet : cells[s] = <<>> THEN FALSE
  ELSE IF fixed = SquareSet THEN TRUE
  ELSE LET s == NextToFix(cells, fixed)
       IN  \E i \in DOMAIN cells[s] :
             Completable(Fix(cells, s, cells[s][i]), fixed \cup {s})

\* full is a completion of puzzle: one candidate of the cell in every cell,
\* every unit complete.
CompletionOf(puzzle, full) ==
  /\ Solved(full)
  /\ \A s \in SquareSet : Contains(puzzle.cells[s], full.cells[s][1])

\* hint is any puzzle: when it happens to be a completion, none is looked for.
HasCompletion(puzzle, hint) ==
  /\ Live(puzzle)
  /\ CompletionOf(puzzle, hint) \/ Completable(puzzle.cells, {})

\* The character the grid holds for square s, among those that count.
GridAt(s) == GridChars(grid)[IndexOf(s)]

\* Two squares of one unit are given the same digit.
DuplicateGiven ==
  LET chars == GridChars(grid)
      at(s) == chars[IndexOf(s)]
  IN  \E k \in DOMAIN unitlist : \E i, j \in DOMAIN unitlist[k] :
        /\ i # j
        /\ at(unitlist[k][i]) \in Range(digits)
        /\ at(unitlist[k][i]) = at(unitlist[k][j])

\* C1: when search returns to solve a puzzle that has not failed, every cell
\* of it has exactly one candidate and every one of the 27 units holds every
\* digit exactly once.
C1_SearchSound ==
  (pc = "done" /\ heap[ret].cells # <<>>) => Solved(heap[ret])

\* search returned a solved puzzle after branching at least once.
C1_Witness ==
  pc = "done" /\ heap[ret].cells # <<>> /\ ret > 1

\* C2: search returns a failed puzzle exactly when the puzzle parse_grid
\* returned (heap[1]) has no completion within its candidates.
C2_SearchComplete ==
  pc = "done" => ((heap[ret].cells = <<>>) <=> ~HasCompletion(heap[1], heap[ret]))

\* search returned Failed for a puzzle that parse_grid had not failed.
C2_Witness ==
  pc = "done" /\ heap[ret].cells = <<>> /\ Live(heap[1])

\* C3: a grid that gives the same digit to two squares of one unit makes
\* parse_grid return a failed puzzle, in every order of the givens.
C3_DuplicateFails ==
  (pc = "parsed" /\ DuplicateGiven) => heap[1].cells = <<>>

\* parse_grid returned Failed on a grid with a duplicate and a third given.
C3_Witness ==
  /\ pc = "parsed"
  /\ DuplicateGiven
  /\ heap[1].cells = <<>>
  /\ Len(Givens(grid)) > 2

\* C4 (as claimed): to_string returns 81 characters for every puzzle that
\* parse_grid or solve returned, the failed puzzle included: it never raises,
\* and each character is the cell's single candidate or ".".
C4_ToStringTotal ==
  /\ out.exc = ""
  /\ pc = "to_file" =>
       /\ Len(out.text) = 81
       /\ \A i \in DOMAIN squares :
            out.text[i] = (IF Len(heap[ret].cells[squares[i]]) = 1
                           THEN heap[ret].cells[squares[i]][1] ELSE ".")

\* C5 (as claimed): assign and eliminate on a failed puzzle return a failed
\* puzzle, change nothing and do not raise.
C5_FailedAbsorbs ==
  probe.fn # "" => (probe.exc = "" /\ probe.failed /\ ~probe.changed)

\* C6: when parse_grid(g) has not failed, parse_grid(to_string(parse_grid(g)))
\* has not failed either and gives every cell the same candidates.
C6_RoundTrip ==
  (pc = "parsed" /\ first # <<>>) => heap[1].cells = first

\* The text of a puzzle with determined and undetermined cells was parsed.
C6_Witness ==
  /\ pc = "parsed"
  /\ first # <<>>
  /\ \E s \in SquareSet : Len(first[s]) = 1 /\ GridAt(s) = first[s][1]
  /\ \E s \in SquareSet : Len(first[s]) > 1 /\ GridAt(s) = "."
  /\ Cardinality({s \in SquareSet : Len(first[s]) = 1}) > 4

\* The units and peers of C2 that the test of the program expects.
C2Units ==
  << <<"A2", "B2", "C2", "D2", "E2", "F2", "G2", "H2", "I2">>,
     <<"C1", "C2", "C3", "C4", "C5", "C6", "C7", "C8", "C9">>,
     <<"A1", "A2", "A3", "B1", "B2", "B3", "C1", "C2", "C3">> >>

C2Peers ==
  {"A2", "B2", "D2", "E2", "F2", "G2", "H2", "I2",
   "C1", "C3", "C4", "C5", "C6", "C7", "C8", "C9",
   "A1", "A3", "B1", "B3"}

\* What test() checks of the board, for every square.
BoardOfTest ==
  /\ Len(squares) = 81
  /\ Cardinality(SquareSet) = 81
  /\ Len(unitlist) = 27
  /\ \A k \in DOMAIN unitlist :
       Len(unitlist[k]) = 9 /\ Cardinality(Range(unitlist[k])) = 9
  /\ \A s \in SquareSet :
       /\ Cardinality({k \in DOMAIN unitlist : s \in Range(unitlist[k])}) = 3
       /\ Len(units[s]) = 3
       /\ units[s][1] \in Range(column_squares)
       /\ units[s][2] \in Range(row_squares)
       /\ units[s][3] \in Range(box_squares)
       /\ Cardinality(peers[s]) = 20
       /\ peers[s] =
            (Range(units[s][1]) \cup Range(units[s][2]) \cup Range(units[s][3])) \ {s}
  /\ units["C2"] = C2Units
  /\ peers["C2"] = C2Peers

\* C7: 81 squares, 27 units of 9 squares; every square is in exactly 3
\* units, its column, its row and its box in this order, and has exactly 20
\* peers, the squares of its units but itself; for C2 they are those of test.
\* The squares parse_grid is about to assign are among them.
C7_Topology ==
  /\ BoardOfTest
  /\ \A i \in DOMAIN todo :
       /\ todo[i][1] \in SquareSet
       /\ Len(units[todo[i][1]]) = 3
       /\ Cardinality(peers[todo[i][1]]) = 20

\* C2 alone was assigned a digit, and exactly its 20 peers lost that digit.
C7_Witness ==
  /\ pc = "parse_grid"
  /\ {s \in SquareSet : Len(heap[1].cells[s]) = 1} = {"C2"}
  /\ {s \in SquareSet : ~Contains(heap[1].cells[s], heap[1].cells["C2"][1])} = C2Peers

\* The puzzles the program holds a reference to.
Referenced ==
  {stack[i].puzzle : i \in DOMAIN stack}
    \cup (IF cur.puzzle # 0 THEN {cur.puzzle} ELSE {})
    \cup (IF arg # 0 THEN {arg} ELSE {})
    \cup (IF ret # 0 THEN {ret} ELSE {})

\* The puzzles search and first_valid_result were given and still work on.
Given ==
  {stack[i].puzzle : i \in DOMAIN stack}
    \cup (IF cur.puzzle # 0 THEN {cur.puzzle} ELSE {})
    \cup (IF pc = "search" THEN {arg} ELSE {})

\* C9: no step of search or first_valid_result changes a candidate set of a
\* puzzle it was given; a trial digit is assigned on a new object, so the
\* next digit is tried on the candidates the parent had before the branch.
C9_BranchIsolation ==
  [][/\ \A id \in Given : heap'[id].cells = heap[id].cells
     /\ (pc = "first_valid_result" /\ cur.values # <<>>) =>
          /\ arg' \notin Referenced
          /\ heap'[arg'].cells # <<>> =>
               /\ heap'[arg'].cells[cur.square] = <<cur.values[1]>>
               /\ \A s \in SquareSet :
                    Range(heap'[arg'].cells[s]) \subseteq Range(heap[cur.puzzle].cells[s])
    ]_vars

\* A branch has failed and the next digit of the square is about to be tried.
C9_Witness ==
  /\ pc = "first_valid_result"
  /\ cur.values # <<>>
  /\ Len(cur.values) < Len(heap[cur.puzzle].cells[cur.square])

\* C10: a puzzle that parse_grid or search holds, that has not failed and in
\* which every cell has one candidate, is solved; so search never takes the
\* minimum over no square at all.
C10_SinglesSolved ==
  /\ pc # "ValueError"
  /\ \A id \in Referenced \cup (IF pc \in {"parse_grid", "parsed"} THEN {1} ELSE {}) :
       (Live(heap[id]) /\ EveryCellSingle(heap[id])) => Solved(heap[id])

\* search is called on a puzzle in which every cell has one candidate.
C10_Witness ==
  pc = "search" /\ Live(heap[arg]) /\ EveryCellSingle(heap[arg])

\* C8: a call of assign or eliminate comes to an end.  No step adds a digit to
\* a cell; a call of eliminate whose digit is among the candidates of its
\* square removes exactly that digit from that square, every other step
\* leaves every cell as it is.
C8_PropagationTerminates ==
  /\ [][machine.calls # <<>> =>
         LET f == Top(machine)
             before == machine.obj.cells
             after == machine'.obj.cells
         IN  /\ \A s \in SquareSet : Range(after[s]) \subseteq Range(before[s])
             /\ IF /\ f.fn = "eliminate"
                   /\ f.at = "enter"
                   /\ Contains(before[f.square], f.digit)
                THEN /\ after = [before EXCEPT ![f.square] = Replace(@, f.digit)]
                     /\ Len(after[f.square]) = Len(before[f.square]) - 1
                ELSE after = before
      ]_vars
  /\ <>(machine.calls = <<>>)

\* A call has returned the puzzle after more than 20 digits were removed.
C8_Witness ==
  /\ pc = "propagate"
  /\ machine.calls = <<>>
  /\ machine.result = "ok"
  /\ machine.obj.count > 20

====
